---------------------------- MODULE Spec2Model ----------------------------
(***************************************************************************)
(* The annotation-and-drawing engine of src/components/Editor.tsx: the     *)
(* tool state, the canvas (raster surface) and its 2D context, the         *)
(* snapshot history with undo/redo, and the asynchronous image decodes     *)
(* (restore after undo/redo, image insertion, initial load).               *)
(*                                                                         *)
(* The canvas is a row of pixels; a pixel holds an opacity level, 0 for    *)
(* transparent up to Ink for fully opaque.  Every handler of the component *)
(* is one action.  A React state variable read inside a callback that runs *)
(* later (an image's onload) is the value captured when the callback was   *)
(* created; a functional update (setX(prev => ...)) reads the current one. *)
(***************************************************************************)
EXTENDS Integers, Sequences, FiniteSets, TLC

\* ------------------------------------------------------------- bounds
\* Longest history the model lets a push produce.
MaxHistory == 3
\* Most restore decodes in flight at once.
MaxRestores == 2
\* Most image insertions in flight at once.
MaxUploads == 1
\* The number of custom colours the colour input offers.
MaxCustom == 6
\* The largest reading of the clock.
MaxClock == 2
\* Longest comment thread the model lets a highlight grow.
MaxThread == 2
\* Most highlight markers in the editor's DOM.
MaxMarkers == 2
\* The largest client coordinate of a pointer event.
MaxClient == 3

\* ---------------------------------------------------------- vocabulary
ToolType == {"text", "fine_liner", "pen", "marker", "highlighter", "eraser", "shape"}
ShapeType == {"rect", "circle", "triangle", "line"}
\* The tools the history sessions select: text, an opaque pen, the eraser.
ToolChoices == {"text", "pen", "eraser"}
ShapeChoices == {"rect", "circle"}

PRESET_COLORS == <<"#000000", "#135bec", "#ef4444", "#22c55e", "#a855f7", "#f59e0b", "#ec4899">>
\* Values of the colour input (lowercase #rrggbb) that are not presets.
CustomPalette == <<"#101010", "#202020", "#303030", "#404040", "#505050", "#606060",
                   "#707070", "#808080">>
CustomColors == {CustomPalette[i] : i \in 1..MaxCustom}
Colors == {PRESET_COLORS[i] : i \in DOMAIN PRESET_COLORS} \cup CustomColors

\* Opacity levels of a pixel: 0 transparent, 1 and 2 translucent, 3 opaque.
Levels == 0..3
Ink == CHOOSE v \in Levels : \A w \in Levels : w <= v

\* A JavaScript value that may be null or undefined: Null, or Some(v).
Null == <<>>
Some(v) == <<v>>
Val(m) == m[1]

Min(a, b) == IF a <= b THEN a ELSE b
Max(a, b) == IF a >= b THEN a ELSE b

\* A canvas is a row of pixels 1..width, each holding a level.
\* The canvas cv after ctx.clearRect(0, 0, canvas.width, canvas.height).
\* A clearRect that leaves the pixels as they are.
clearRectKeep(cv) == cv

clearRect(cv) == [p \in DOMAIN cv |-> 0]

\* HTMLCanvasElement.toDataURL(): a lossless (PNG) encoding of the pixels.
toDataURL(cv) == <<"data:image/png", cv>>
\* The pixels of a decoded image (Image.onload has fired for this src).
Decode(dataUrl) == dataUrl[2]

\* The 2D context right after getContext('2d') and the two assignments that
\* follow it; the current path is kept as cover (the pixels its stroke
\* touches), from (the subpath's first point) and at (the current point),
\* Null while the path is empty.
NewContext == [globalAlpha |-> 100, globalCompositeOperation |-> "source-over",
               lineWidth |-> 1, strokeStyle |-> "#000000", fillStyle |-> "#000000",
               cover |-> {}, from |-> Null, at |-> Null, attached |-> TRUE]
\* contextRef.current stays null when getContext returns null.
NoContext == [NewContext EXCEPT !.attached = FALSE]

\* One source pixel of level s composited onto a destination pixel of level d
\* under the context's globalCompositeOperation and globalAlpha (percent).
Blend(d, s, gco, alpha) ==
    LET eff == IF s = 0 THEN 0 ELSE IF alpha = 100 THEN s ELSE 1
    IN  IF eff = 0 THEN d
        ELSE IF gco = "destination-out"
             THEN (IF eff = Ink THEN 0 ELSE Max(d - eff, 0))
        ELSE \* source-over, multiply
             (IF eff = Ink \/ d = Ink THEN Ink ELSE Min(d + eff, Ink - 1))

\* A drawImage that paints nothing.
drawImageKeep(cv, img, gco, alpha) == cv

\* ctx.drawImage(img, ...): every image pixel composited onto the canvas.
drawImage(cv, img, gco, alpha) ==
    [p \in DOMAIN cv |-> Blend(cv[p], img[p], gco, alpha)]

\* The points a straight segment between two points covers.
Segment(a, b) == Min(a, b)..Max(a, b)

\* ctx.beginPath / moveTo / lineTo / closePath on the context's current path.
beginPath(c) == [c EXCEPT !.cover = {}, !.from = Null, !.at = Null]
moveTo(c, x) == [c EXCEPT !.from = Some(x), !.at = Some(x)]
lineTo(c, x) ==
    IF c.at = Null THEN moveTo(c, x)
    ELSE [c EXCEPT !.cover = @ \cup Segment(Val(c.at), x), !.at = Some(x)]
closePath(c) ==
    IF c.at = Null THEN c
    ELSE [c EXCEPT !.cover = @ \cup Segment(Val(c.at), Val(c.from)), !.at = c.from]

\* ctx.stroke(): the current path painted in an opaque stroke style.
stroke(cv, c) ==
    [p \in DOMAIN cv |-> IF p \in c.cover
                         THEN Blend(cv[p], Ink, c.globalCompositeOperation, c.globalAlpha)
                         ELSE cv[p]]

\* The image an insertion draws at (50, 50, 200, 200): opaque, on the
\* first pixel of the row.
InsertedImage(cv) == [p \in DOMAIN cv |-> IF p = Min(1, Len(cv)) THEN Ink ELSE 0]

\* Array.prototype.slice(0, n)
Slice(s, n) == SubSeq(s, 1, Min(Max(n, 0), Len(s)))

\* The highlight colours of the text toolbar, and the two the sessions pick from.
HIGHLIGHT_COLORS == <<"#fef08a", "#bbf7d0", "#bfdbfe", "#fecaca", "#ddd6fe">>
HighlightChoices == {HIGHLIGHT_COLORS[1], HIGHLIGHT_COLORS[2]}

\* What window.getSelection() holds when a highlight colour is clicked:
\* nothing (null, or rangeCount 0), a collapsed range, a range inside one
\* text node (surroundContents succeeds), or a range that partially selects
\* a non-text node (surroundContents throws).
Selections == {"none", "collapsed", "inline", "blocks"}

\* A text is a sequence of characters; these are the texts typed into the
\* comment box.
Texts == {<<>>, <<" ">>, <<"a">>, <<" ", "a">>}

\* A trim that strips nothing.
trimNone(s) == s

\* String.prototype.trim: leading and trailing white space removed.
RECURSIVE trimStart(_)
trimStart(s) == IF s # <<>> /\ Head(s) = " " THEN trimStart(Tail(s)) ELSE s
RECURSIVE trimEnd(_)
trimEnd(s) == IF s # <<>> /\ s[Len(s)] = " " THEN trimEnd(SubSeq(s, 1, Len(s) - 1)) ELSE s
trim(s) == trimEnd(trimStart(s))

\* 'hl_' + Date.now() and 'c_' + Date.now() at the clock reading t.
hlId(t) == <<"hl_", t>>
cId(t) == <<"c_", t>>

\* A Record<string, Highlight>: the empty one, and { ...prev, [id]: h }.
NoHighlights == [k \in {} |-> Null]
Put(prev, id, h) == [k \in DOMAIN prev \cup {id} |-> IF k = id THEN h ELSE prev[k]]


\* A number that need not be whole is kept as a reduced fraction <<n, d>>.
RECURSIVE GCD(_, _)
GCD(a, b) == IF b = 0 THEN a ELSE GCD(b, a % b)
Abs(n) == IF n < 0 THEN -n ELSE n
Frac(n, d) == LET g == GCD(Abs(n), d) IN <<n \div g, d \div g>>
Times(k, f) == Frac(k * f[1], f[2])

\* A scale factor that is always one.
scaleNone(size, shown) == Frac(1, 1)
\* canvas.width / rect.width (and the same for the heights).
scale(size, shown) == Frac(size, shown)

\* getCoordinates(e) for the canvas element cv (Null: canvasRef.current is
\* null; otherwise its width, height and bounding client rect).  A touch
\* event is one that has `touches`, and its first touch point is read.
getCoordinates(cv, e) ==
    IF cv = Null THEN [offsetX |-> Frac(0, 1), offsetY |-> Frac(0, 1)]
    ELSE LET rect == Val(cv).rect
             client == IF "touches" \in DOMAIN e THEN e.touches[1] ELSE e
         IN  [offsetX |-> Times(client.clientX - rect.left, scale(Val(cv).width, rect.width)),
              offsetY |-> Times(client.clientY - rect.top, scale(Val(cv).height, rect.height))]

\* The canvas element as the mount effect sizes it in a parent as wide as
\* the canvas is shown: resolution and displayed size agree.
Unscaled == Some([width |-> 2, height |-> 2,
                  rect |-> [left |-> 0, top |-> 0, width |-> 2, height |-> 2]])
\* The geometries of the coordinate sessions: canvasRef.current null, or a
\* canvas of some resolution shown at some size and place.
Geometries ==
    {Null} \cup
    {Some([width |-> w, height |-> 2,
           rect |-> [left |-> l, top |-> 0, width |-> rw, height |-> rh]]) :
        w \in {2, 4}, l \in {0, 1}, rw \in {1, 2, 4}, rh \in {1, 2}}
\* The pointer events: mouse events, and touch events with one or two touches.
Points == [clientX : 0..MaxClient, clientY : 0..1]
PointerEvents ==
    Points \cup {[touches |-> <<t>>] : t \in Points}
           \cup {[touches |-> <<t, [clientX |-> 0, clientY |-> 0]>>] : t \in Points}
\* The pointer state for a canvas element of geometry g before any event.
Laid(g) == [geom |-> g, e |-> Null, offset |-> Null]

\* ------------------------------------------------------------ variables
VARIABLES
    tool,            \* useState<ToolType>
    selectedShape,   \* useState<ShapeType>
    color,           \* useState stroke colour
    recentColors,    \* useState<string[]>: recently used custom colours
    isDarkMode,      \* prop
    isShiftPressed,  \* useRef: Shift key held
    isDrawing,       \* useState: stroke in progress
    startPos,        \* useRef: start coordinate of the stroke, or Null
    snapshot,        \* useRef: pre-stroke ImageData, or Null
    canvas,          \* the pixels of the canvas element
    ctx,             \* contextRef.current: the 2D context state
    history,         \* useState<string[]>: encoded snapshots
    historyStep,     \* useState: the current pointer, -1 for empty
    restoring,       \* Images created by restoreCanvasState, not yet loaded
    uploads,         \* image insertions in flight: the historyStep each captured
    loading,         \* the initial-load Image has not fired onload yet
    pageDrawing,     \* page.drawingData, or Null
    pageNotes,       \* page.content (its highlight markers) and page.highlights
    highlights,      \* useState<Record<string, Highlight>>
    activeHighlightId, \* useState<string | null>
    newComment,      \* useState: the pending comment text
    markers,         \* the data-highlight-id of the highlight spans in the editor's DOM
    now,             \* the reading Date.now() returns
    crashed,         \* an error has escaped a handler or a render
    saved,           \* the page record handed to onSave, or Null
    pointer,         \* the canvas element's geometry, the last pointer event mapped and its coordinates
    ev,              \* observer: the last event handled, and whether the stroke has a move sample
    batch,           \* observer: the restores issued since the surface was last painted otherwise
    script           \* observer: the progress of an undo/redo round trip

toolVars == <<tool, selectedShape, color, recentColors, isDarkMode, isShiftPressed>>
strokeVars == <<isDrawing, startPos, snapshot>>
historyVars == <<history, historyStep>>
asyncVars == <<restoring, uploads, loading>>
progVars == <<toolVars, strokeVars, canvas, ctx, historyVars, asyncVars, pageDrawing>>
noteVars == <<pageNotes, highlights, activeHighlightId, newComment, markers, now, crashed>>
ioVars == <<saved, pointer>>
vars == <<progVars, noteVars, ioVars, ev, batch, script>>

\* ------------------------------------------------------------ observer
\* batch: last is the data of the last-issued restore, overlapped whether a
\* restore was issued while another was in flight, dirty whether anything but
\* restores has touched the surface since the batch began.
NoBatch == [last |-> Null, overlapped |-> FALSE, dirty |-> TRUE]

BatchAfter(e) ==
    IF e.op = "restore"
    THEN IF restoring = <<>>
         THEN [last |-> Some(e.data), overlapped |-> FALSE, dirty |-> FALSE]
         ELSE [batch EXCEPT !.last = Some(e.data), !.overlapped = TRUE]
    ELSE IF e.op \in {"restored", "setTool", "stopIdle", "noop", "textUndo", "textRedo",
                      "undoNoop", "redoNoop", "upload", "setColor",
                      "handleHighlight", "editorClick", "closeComments",
                      "setNewComment", "addComment", "tick", "save", "getCoordinates",
                      "relayout"}
    THEN batch
    ELSE [batch EXCEPT !.dirty = TRUE]

\* script: off outside a round trip.  In a round trip the session makes n
\* completed strokes (phase strokes), then n undos (phase undo) and n redos
\* (phase redo), each issued with no stroke in progress and no decode
\* pending; k counts the undos or redos made, final, hist and step are the
\* snapshot, the history and the pointer after the n-th stroke, before the
\* number of strokes completed before the initial load did (-1: no load).
ScriptOff == [phase |-> "off", n |-> 0, k |-> 0, final |-> Null, hist |-> <<>>,
              step |-> -1, before |-> -1]

Quiet == ~isDrawing /\ restoring = <<>> /\ ~loading
UndoOps == {"restore", "restoreFailed", "undoToEmpty", "undoNoop"}
RedoOps == {"restore", "restoreFailed", "redoNoop"}

\* The script after event e; the event is not allowed when this is Null.
ScriptAfter(e) ==
    CASE script.phase = "off" -> Some(script)
      [] script.phase = "strokes" ->
           IF e.op \in {"setTool", "startDrawing", "draw"} THEN Some(script)
           ELSE IF e.op = "initialLoaded" THEN Some([script EXCEPT !.before = script.n])
           ELSE IF e.op = "stopDrawing"
           THEN Some([script EXCEPT !.n = @ + 1, !.final = Some(toDataURL(canvas)),
                                    !.hist = history', !.step = historyStep'])
           ELSE IF e.op \in UndoOps /\ e.by = "undo" /\ Quiet /\ script.n >= 1
           THEN Some([script EXCEPT !.phase = IF script.n = 1 THEN "redo" ELSE "undo",
                                    !.k = IF script.n = 1 THEN 0 ELSE 1])
           ELSE Null
      [] script.phase = "undo" ->
           IF e.op = "restored" THEN Some(script)
           ELSE IF e.op \in UndoOps /\ e.by = "undo" /\ Quiet
           THEN Some([script EXCEPT !.phase = IF script.k + 1 = script.n THEN "redo" ELSE "undo",
                                    !.k = IF script.k + 1 = script.n THEN 0 ELSE @ + 1])
           ELSE Null
      [] script.phase = "redo" ->
           IF e.op = "restored"
           THEN Some([script EXCEPT !.phase = IF script.k = script.n /\ Len(restoring) = 1
                                             THEN "done" ELSE "redo"])
           ELSE IF e.op \in RedoOps /\ e.by = "redo" /\ Quiet /\ script.k < script.n
           THEN Some([script EXCEPT !.k = @ + 1,
                                    !.phase = IF script.k + 1 = script.n /\ e.op # "restore"
                                              THEN "done" ELSE "redo"])
           ELSE Null
      [] OTHER -> Null

Observe(e) ==
    /\ ev' = [op |-> e.op, by |-> e.by,
              moved |-> IF e.op = "startDrawing" THEN FALSE
                        ELSE IF e.op = "draw" THEN TRUE ELSE ev.moved]
    /\ batch' = BatchAfter(e)
    /\ ScriptAfter(e) # Null
    /\ script' = Val(ScriptAfter(e))

\* ------------------------------------------------------------- helpers
\* The sequence s without its i-th element.
RemoveAt(s, i) == SubSeq(s, 1, i - 1) \o SubSeq(s, i + 1, Len(s))

\* An event of the user (or of a decode started by undo or redo: by).
Ev(op) == [op |-> op, by |-> "user"]

\* A push that advances the pointer by two.
PushedStepTwo(prev) == prev + 2

\* A push that appends the snapshot twice.
PushedHistoryTwice(prev, capturedStep, data) == Slice(prev, capturedStep + 1) \o <<data, data>>

\* saveCanvasToHistory's two state updates, for the canvas data `data`:
\* setHistory(prev => [...prev.slice(0, historyStep + 1), data]) with the
\* historyStep of the closure that runs it (capturedStep), and
\* setHistoryStep(prev => prev + 1) on the current pointer.
PushedHistory(prev, capturedStep, data) == Slice(prev, capturedStep + 1) \o <<data>>
PushedStep(prev) == prev + 1

\* A preview branch that keeps the opacity and blend mode of the last paint.
PreviewParamsSticky(c, t) ==
    IF t = "shape" THEN [c EXCEPT !.lineWidth = 2]
    ELSE CASE t = "fine_liner" -> [c EXCEPT !.lineWidth = 1]
           [] t = "pen" -> [c EXCEPT !.lineWidth = 3]
           [] t = "marker" -> [c EXCEPT !.lineWidth = 8]
           [] t = "highlighter" -> [c EXCEPT !.globalAlpha = 35, !.lineWidth = 24,
                                             !.globalCompositeOperation = "multiply"]
           [] OTHER -> [c EXCEPT !.lineWidth = 2]

\* The tool-specific context parameters of draw's preview branch.
PreviewParams(c, t) ==
    LET base == [c EXCEPT !.globalAlpha = 100, !.globalCompositeOperation = "source-over"]
    IN  IF t = "shape" THEN [base EXCEPT !.lineWidth = 2]
        ELSE CASE t = "fine_liner" -> [base EXCEPT !.lineWidth = 1]
               [] t = "pen" -> [base EXCEPT !.lineWidth = 3]
               [] t = "marker" -> [base EXCEPT !.lineWidth = 8]
               [] t = "highlighter" -> [base EXCEPT !.globalAlpha = 35, !.lineWidth = 24,
                                                    !.globalCompositeOperation = "multiply"]
               [] OTHER -> [base EXCEPT !.lineWidth = 2]

\* A freehand branch whose eraser paints with normal blending.
FreehandParamsInk(c, t) ==
    LET base == [c EXCEPT !.globalAlpha = 100, !.globalCompositeOperation = "source-over"]
    IN  CASE t = "fine_liner" -> [base EXCEPT !.lineWidth = 1]
          [] t = "pen" -> [base EXCEPT !.lineWidth = 3]
          [] t = "marker" -> [base EXCEPT !.lineWidth = 8]
          [] t = "highlighter" -> [base EXCEPT !.globalAlpha = 35, !.lineWidth = 24,
                                               !.globalCompositeOperation = "multiply"]
          [] t = "eraser" -> [base EXCEPT !.lineWidth = 40]
          [] OTHER -> [base EXCEPT !.lineWidth = 2]

\* The tool-specific context parameters of draw's freehand branch.
FreehandParams(c, t) ==
    LET base == [c EXCEPT !.globalAlpha = 100, !.globalCompositeOperation = "source-over"]
    IN  CASE t = "fine_liner" -> [base EXCEPT !.lineWidth = 1]
          [] t = "pen" -> [base EXCEPT !.lineWidth = 3]
          [] t = "marker" -> [base EXCEPT !.lineWidth = 8]
          [] t = "highlighter" -> [base EXCEPT !.globalAlpha = 35, !.lineWidth = 24,
                                               !.globalCompositeOperation = "multiply"]
          [] t = "eraser" -> [base EXCEPT !.lineWidth = 40,
                                          !.globalCompositeOperation = "destination-out"]
          [] OTHER -> [base EXCEPT !.lineWidth = 2]

\* The path of draw's preview primitive from start s to the current point x
\* on the pixel row: a rectangle, a triangle and a line span s..x, a circle
\* centred on s with radius |x - s| meets the row at s - r and s + r.
PreviewPath(c, t, shape, s, x) ==
    LET r == IF x >= s THEN x - s ELSE s - x
        fresh == beginPath(c)
    IN  IF t = "shape" /\ shape = "circle"
        THEN [fresh EXCEPT !.cover = {s - r, s + r}, !.from = Some(s + r), !.at = Some(s + r)]
        ELSE IF t = "shape" /\ shape \in {"rect", "triangle"}
        THEN closePath(lineTo(moveTo(fresh, s), x))
        ELSE lineTo(moveTo(fresh, s), x)

\* ------------------------------------------------------------- initial
\* The component after mount, on a canvas `blank` whose 2D context is
\* `context` and whose element has the geometry `geometry`, for a page
\* whose drawingData is `drawing`.
MountedWith(blank, drawing, context, geometry) ==
    /\ tool = "text"
    /\ selectedShape = "rect"
    /\ color = "#135bec"
    /\ recentColors = <<>>
    /\ isDarkMode = FALSE
    /\ isShiftPressed = FALSE
    /\ isDrawing = FALSE
    /\ startPos = Null
    /\ snapshot = Null
    /\ canvas = blank
    /\ ctx = context
    /\ history = <<>>
    /\ historyStep = -1
    /\ restoring = <<>>
    /\ uploads = <<>>
    /\ pageDrawing = drawing
    /\ loading = (drawing # Null)
    /\ saved = Null
    /\ pointer = Laid(geometry)
    /\ ev = [op |-> "init", by |-> "user", moved |-> FALSE]
    /\ batch = NoBatch

\* The component after mount with its 2D context, the canvas shown unscaled.
Mounted(blank, drawing) == MountedWith(blank, drawing, NewContext, Unscaled)

\* The annotation state after mount for a page p: the highlight map is
\* page.highlights || {}, the editor's innerHTML is page.content.
Opened(p) ==
    /\ pageNotes = p
    /\ highlights = IF p.highlights = Null THEN NoHighlights ELSE Val(p.highlights)
    /\ activeHighlightId = Null
    /\ newComment = <<>>
    /\ markers = p.content
    /\ now = 1
    /\ crashed = FALSE

\* A page without highlights.
PlainPage == [content |-> <<>>, highlights |-> Null]

\* The canvas of the history sessions: a row of one pixel.
Blank == <<0>>
\* page.drawingData of the page being opened: absent, or a stored snapshot.
PageDrawings == {Null, Some(toDataURL([p \in DOMAIN Blank |-> Ink]))}

Init ==
    /\ \E d \in PageDrawings : Mounted(Blank, d)
    /\ script = ScriptOff
    /\ Opened(PlainPage)

\* ------------------------------------------------------------- actions
\* A context test that always passes.
HasContextAlways(c) == TRUE
\* contextRef.current is set.
HasContext(c) == c.attached
\* canvasRef.current is set.
HasCanvas(g) == g # Null

\* setTool(t): the Type and Draw buttons are always shown, the other tool
\* buttons only while a drawing tool is active.
SetTool(t) ==
    /\ t \in {"text", "pen"} \/ tool # "text"
    /\ tool' = t
    /\ UNCHANGED <<selectedShape, color, recentColors, isDarkMode, isShiftPressed>>
    /\ UNCHANGED <<strokeVars, canvas, ctx, historyVars, asyncVars, pageDrawing>>
    /\ Observe(Ev("setTool"))
    /\ UNCHANGED noteVars
    /\ UNCHANGED ioVars

\* setSelectedShape(s): the shape buttons are shown while the shape tool is active.
SetSelectedShape(s) ==
    /\ tool = "shape"
    /\ selectedShape' = s
    /\ UNCHANGED <<tool, color, recentColors, isDarkMode, isShiftPressed>>
    /\ UNCHANGED <<strokeVars, canvas, ctx, historyVars, asyncVars, pageDrawing>>
    /\ Observe(Ev("setTool"))
    /\ UNCHANGED noteVars
    /\ UNCHANGED ioVars

\* Array.prototype.includes.
includes(arr, v) == \E i \in DOMAIN arr : arr[i] = v
\* A filter that removes nothing.
filterKeep(arr, v) == arr
\* prev.filter(c => c !== v).
filterOut(arr, v) == SelectSeq(arr, LAMBDA c : c # v)

\* A recentColors update that does not cut the list.
RecentAfterAll(prev, newColor) == <<newColor>> \o filterOut(prev, newColor)
\* The recentColors list after a custom colour was chosen.
RecentAfter(prev, newColor) == Slice(<<newColor>> \o filterOut(prev, newColor), 5)

\* handleSetColor(newColor): a preset button or the colour input.
HandleSetColor(newColor) ==
    /\ color' = newColor
    /\ recentColors' = IF ~includes(PRESET_COLORS, newColor)
                       THEN RecentAfter(recentColors, newColor)
                       ELSE recentColors
    /\ UNCHANGED <<tool, selectedShape, isDarkMode, isShiftPressed>>
    /\ UNCHANGED <<strokeVars, canvas, ctx, historyVars, asyncVars, pageDrawing>>
    /\ Observe(Ev("setColor"))
    /\ UNCHANGED noteVars
    /\ UNCHANGED ioVars

\* handleKeyDown / handleKeyUp for the Shift key.
KeyShift(down) ==
    /\ isShiftPressed' = down
    /\ UNCHANGED <<tool, selectedShape, color, recentColors, isDarkMode>>
    /\ UNCHANGED <<strokeVars, canvas, ctx, historyVars, asyncVars, pageDrawing>>
    /\ Observe(Ev("setTool"))
    /\ UNCHANGED noteVars
    /\ UNCHANGED ioVars

\* startDrawing at surface coordinate x (mousedown, touchstart).
StartDrawing(x) ==
    /\ IF tool = "text"
       THEN /\ UNCHANGED <<strokeVars, ctx>>
            /\ Observe(Ev("noop"))
       ELSE /\ isDrawing' = TRUE
            /\ startPos' = Some(x)
            /\ snapshot' = IF HasContext(ctx) /\ HasCanvas(pointer.geom)
                            THEN Some(canvas) ELSE snapshot
            /\ ctx' = IF /\ HasContext(ctx) /\ HasCanvas(pointer.geom)
                         /\ (tool # "shape" \/ selectedShape = "line")
                      THEN moveTo(beginPath(ctx), x)
                      ELSE ctx
            /\ Observe(Ev("startDrawing"))
    /\ UNCHANGED <<toolVars, canvas, historyVars, asyncVars, pageDrawing>>
    /\ UNCHANGED noteVars
    /\ UNCHANGED ioVars

\* draw at surface coordinate x (mousemove, touchmove).
Draw(x) ==
    /\ IF ~isDrawing \/ ~HasContext(ctx) \/ startPos = Null \/ tool = "text"
       THEN /\ UNCHANGED <<canvas, ctx>>
            /\ Observe(Ev("noop"))
       ELSE LET styled == [ctx EXCEPT
                            !.strokeStyle = IF tool = "eraser"
                                            THEN (IF isDarkMode THEN "#1c222e" ELSE "white")
                                            ELSE color,
                            !.fillStyle = color]
            IN  IF tool = "shape" \/ (tool # "eraser" /\ isShiftPressed)
                THEN LET restored == IF snapshot # Null THEN Val(snapshot) ELSE canvas
                         c2 == PreviewPath(PreviewParams(styled, tool), tool,
                                           selectedShape, Val(startPos), x)
                     IN  /\ ctx' = c2
                         /\ canvas' = stroke(restored, c2)
                         /\ Observe(Ev("draw"))
                ELSE LET c2 == lineTo(FreehandParams(styled, tool), x)
                     IN  /\ ctx' = c2
                         /\ canvas' = stroke(canvas, c2)
                         /\ Observe(Ev("draw"))
    /\ UNCHANGED <<toolVars, strokeVars, historyVars, asyncVars, pageDrawing>>
    /\ UNCHANGED noteVars
    /\ UNCHANGED ioVars

\* The canvas events bound to stopDrawing.
EndEvents == {"mouseup", "mouseout", "touchend"}

\* stopDrawing, run for the end event `kind`.
StopDrawing(kind) ==
    /\ IF isDrawing
       THEN /\ Len(PushedHistory(history, historyStep, toDataURL(canvas))) <= MaxHistory
            /\ ctx' = IF HasContext(ctx) THEN closePath(ctx) ELSE ctx
            /\ isDrawing' = FALSE
            /\ startPos' = Null
            /\ snapshot' = Null
            /\ history' = IF HasCanvas(pointer.geom)
                           THEN PushedHistory(history, historyStep, toDataURL(canvas))
                           ELSE history
            /\ historyStep' = IF HasCanvas(pointer.geom)
                               THEN PushedStep(historyStep)
                               ELSE historyStep
            /\ Observe([op |-> "stopDrawing", by |-> kind])
       ELSE /\ UNCHANGED <<strokeVars, ctx, historyVars>>
            /\ Observe([op |-> "stopIdle", by |-> kind])
    /\ UNCHANGED <<toolVars, canvas, asyncVars, pageDrawing>>
    /\ UNCHANGED noteVars
    /\ UNCHANGED ioVars

\* restoreCanvasState(dataUrl): the canvas is cleared at once and an Image is
\* created whose onload draws it; an undefined dataUrl never loads.
restoreCanvasState(dataUrl, by) ==
    /\ canvas' = clearRect(canvas)
    /\ IF dataUrl = Null
       THEN /\ restoring' = restoring
            /\ Observe([op |-> "restoreFailed", by |-> by])
       ELSE /\ restoring' = Append(restoring, [data |-> Val(dataUrl), by |-> by])
            /\ Observe([op |-> "restore", by |-> by, data |-> Val(dataUrl)])

\* history[i] of a JavaScript array, 0-based: undefined outside the array.
HistoryAt(h, i) == IF i + 1 \in DOMAIN h THEN Some(h[i + 1]) ELSE Null

\* The pointer handleUndo moves to from a pointer above 0, and handleRedo
\* from one below the last index.
UndoStep(step) == step - 1
\* A redo that leaves the pointer where it is.
RedoStepStay(step) == step
RedoStep(step) == step + 1

\* An undo/redo that never goes to the text editor.
UsesTextHistoryNever(t) == FALSE
\* Undo and redo go to the text editor (execCommand) when the tool is text.
UsesTextHistory(t) == t = "text"

\* A redo that also moves forward from the last snapshot.
CanRedoAtEnd(step, h) == step <= Len(h) - 1
\* handleRedo's condition for moving the pointer forward.
CanRedo(step, h) == step < Len(h) - 1

\* handleUndo (the Undo button).
HandleUndo ==
    /\ Len(restoring) < MaxRestores
    /\ IF UsesTextHistory(tool)
       THEN /\ UNCHANGED <<canvas, historyStep, restoring>>
            /\ Observe([op |-> "textUndo", by |-> "undo"])
       ELSE IF historyStep > 0
       THEN /\ historyStep' = UndoStep(historyStep)
            /\ restoreCanvasState(HistoryAt(history, UndoStep(historyStep)), "undo")
       ELSE IF historyStep = 0
       THEN /\ historyStep' = -1
            /\ canvas' = clearRect(canvas)
            /\ UNCHANGED restoring
            /\ Observe([op |-> "undoToEmpty", by |-> "undo"])
       ELSE /\ UNCHANGED <<canvas, historyStep, restoring>>
            /\ Observe([op |-> "undoNoop", by |-> "undo"])
    /\ UNCHANGED <<toolVars, strokeVars, ctx, history, uploads, loading, pageDrawing>>
    /\ UNCHANGED noteVars
    /\ UNCHANGED ioVars

\* handleRedo (the Redo button).
HandleRedo ==
    /\ Len(restoring) < MaxRestores
    /\ IF UsesTextHistory(tool)
       THEN /\ UNCHANGED <<canvas, historyStep, restoring>>
            /\ Observe([op |-> "textRedo", by |-> "redo"])
       ELSE IF CanRedo(historyStep, history)
       THEN /\ historyStep' = RedoStep(historyStep)
            /\ restoreCanvasState(HistoryAt(history, RedoStep(historyStep)), "redo")
       ELSE /\ UNCHANGED <<canvas, historyStep, restoring>>
            /\ Observe([op |-> "redoNoop", by |-> "redo"])
    /\ UNCHANGED <<toolVars, strokeVars, ctx, history, uploads, loading, pageDrawing>>
    /\ UNCHANGED noteVars
    /\ UNCHANGED ioVars

\* img.onload of the i-th Image created by restoreCanvasState.
RestoreLoaded(i) ==
    /\ i \in DOMAIN restoring
    /\ ctx' = [ctx EXCEPT !.globalCompositeOperation = "source-over", !.globalAlpha = 100]
    /\ canvas' = drawImage(canvas, Decode(restoring[i].data), "source-over", 100)
    /\ restoring' = RemoveAt(restoring, i)
    /\ Observe([op |-> "restored", by |-> restoring[i].by])
    /\ UNCHANGED <<toolVars, strokeVars, historyVars, uploads, loading, pageDrawing>>
    /\ UNCHANGED noteVars
    /\ UNCHANGED ioVars

\* handleImageUpload with a file chosen: the reader and the Image it starts
\* run later, with the saveCanvasToHistory of this render (its historyStep).
HandleImageUpload ==
    /\ Len(uploads) < MaxUploads
    /\ uploads' = Append(uploads, historyStep)
    /\ UNCHANGED <<toolVars, strokeVars, canvas, ctx, historyVars, restoring, loading, pageDrawing>>
    /\ Observe(Ev("upload"))
    /\ UNCHANGED noteVars
    /\ UNCHANGED ioVars

\* img.onload of the i-th image insertion.
ImageLoaded(i) ==
    /\ i \in DOMAIN uploads
    /\ LET painted == drawImage(canvas, InsertedImage(canvas), "source-over", 100)
       IN  /\ Len(PushedHistory(history, uploads[i], toDataURL(painted))) <= MaxHistory
           /\ ctx' = [ctx EXCEPT !.globalCompositeOperation = "source-over", !.globalAlpha = 100]
           /\ canvas' = painted
           /\ history' = PushedHistory(history, uploads[i], toDataURL(painted))
           /\ historyStep' = PushedStep(historyStep)
    /\ uploads' = RemoveAt(uploads, i)
    /\ Observe(Ev("imageLoaded"))
    /\ UNCHANGED <<toolVars, strokeVars, restoring, loading, pageDrawing>>
    /\ UNCHANGED noteVars
    /\ UNCHANGED ioVars

\* img.onload of the initial load of page.drawingData.
InitialLoaded ==
    /\ loading
    /\ loading' = FALSE
    /\ canvas' = drawImage(canvas, Decode(Val(pageDrawing)),
                           ctx.globalCompositeOperation, ctx.globalAlpha)
    /\ history' = <<Val(pageDrawing)>>
    /\ historyStep' = 0
    /\ Observe(Ev("initialLoaded"))
    /\ UNCHANGED <<toolVars, strokeVars, ctx, restoring, uploads, pageDrawing>>
    /\ UNCHANGED noteVars
    /\ UNCHANGED ioVars

\* The guard of handleHighlight: a selection that is absent or collapsed
\* has no range to wrap.
HasRangeOrCaret(sel) == sel # "none"
HasRange(sel) == sel \notin {"none", "collapsed"}

\* range.surroundContents(span) returns normally unless the range partially
\* selects a non-text node; then it throws before touching the document.
surroundContentsAlways(sel) == TRUE
surroundContents(sel) == sel \in {"collapsed", "inline"}

\* handleHighlight(hColor) with the selection sel.
HandleHighlight(hColor, sel) ==
    /\ ~crashed
    /\ IF ~HasRange(sel)
       THEN UNCHANGED <<markers, highlights, activeHighlightId>>
       ELSE IF surroundContents(sel)
       THEN /\ Len(markers) < MaxMarkers
            /\ markers' = Append(markers, hlId(now))
            /\ highlights' = Put(highlights, hlId(now),
                                 [id |-> hlId(now), color |-> hColor, comments |-> <<>>])
            /\ activeHighlightId' = hlId(now)
       ELSE UNCHANGED <<markers, highlights, activeHighlightId>>
    /\ UNCHANGED <<pageNotes, newComment, now, crashed>>
    /\ UNCHANGED progVars
    /\ Observe([op |-> "handleHighlight", by |-> sel])
    /\ UNCHANGED ioVars

\* handleEditorClick on the target-th highlight span of the editor, or on
\* anything else (target 0).
HandleEditorClick(target) ==
    /\ ~crashed
    /\ target <= Len(markers)
    /\ activeHighlightId' = IF target = 0 THEN Null ELSE markers[target]
    /\ UNCHANGED <<pageNotes, highlights, newComment, markers, now, crashed>>
    /\ UNCHANGED progVars
    /\ Observe(Ev("editorClick"))
    /\ UNCHANGED ioVars

\* The close button of the comments panel.
CloseComments ==
    /\ ~crashed
    /\ activeHighlightId # Null
    /\ activeHighlightId' = Null
    /\ UNCHANGED <<pageNotes, highlights, newComment, markers, now, crashed>>
    /\ UNCHANGED progVars
    /\ Observe(Ev("closeComments"))
    /\ UNCHANGED ioVars

\* onChange of the comment box.
SetNewComment(text) ==
    /\ ~crashed
    /\ text # newComment
    /\ newComment' = text
    /\ UNCHANGED <<pageNotes, highlights, activeHighlightId, markers, now, crashed>>
    /\ UNCHANGED progVars
    /\ Observe(Ev("setNewComment"))
    /\ UNCHANGED ioVars

\* An updater that puts the comment at the head of the thread.
CommentedFirst(prev, id, comment) ==
    Put(prev, id, [prev[id] EXCEPT !.comments = <<comment>> \o @])

\* addComment's updater of the highlight map:
\* { ...prev, [id]: { ...prev[id], comments: [...prev[id].comments, comment] } }.
Commented(prev, id, comment) ==
    Put(prev, id, [prev[id] EXCEPT !.comments = Append(@, comment)])

\* addComment().  Reading prev[id].comments of an id the map does not hold
\* throws a TypeError inside the updater, which no handler catches.
AddComment ==
    /\ ~crashed
    /\ IF activeHighlightId = Null \/ trim(newComment) = <<>>
       THEN UNCHANGED <<highlights, newComment, crashed>>
       ELSE IF activeHighlightId \notin DOMAIN highlights
       THEN /\ crashed' = TRUE
            /\ UNCHANGED <<highlights, newComment>>
       ELSE /\ Len(highlights[activeHighlightId].comments) < MaxThread
            /\ highlights' = Commented(highlights, activeHighlightId,
                                       [id |-> cId(now), text |-> newComment,
                                        author |-> "Me", createdAt |-> now])
            /\ newComment' = <<>>
            /\ UNCHANGED crashed
    /\ UNCHANGED <<pageNotes, activeHighlightId, markers, now>>
    /\ UNCHANGED progVars
    /\ Observe(Ev("addComment"))
    /\ UNCHANGED ioVars

\* The clock advances.
Tick ==
    /\ now < MaxClock
    /\ now' = now + 1
    /\ UNCHANGED <<pageNotes, highlights, activeHighlightId, newComment, markers, crashed>>
    /\ UNCHANGED progVars
    /\ Observe(Ev("tick"))
    /\ UNCHANGED ioVars

\* handleSave(): onSave receives the editor's innerHTML, the canvas as it is
\* (canvasRef.current?.toDataURL()) and the highlight map; onBack then
\* leaves the editor.
HandleSave ==
    /\ saved = Null
    /\ saved' = Some([content |-> markers, drawingData |-> toDataURL(canvas),
                      highlights |-> highlights])
    /\ UNCHANGED <<progVars, noteVars, pointer>>
    /\ Observe(Ev("save"))

\* A pointer event e reaches getCoordinates.
GetCoordinates(e) ==
    /\ pointer' = [pointer EXCEPT !.e = Some(e),
                                  !.offset = Some(getCoordinates(pointer.geom, e))]
    /\ UNCHANGED <<progVars, noteVars, saved>>
    /\ Observe(Ev("getCoordinates"))

\* The layout changes the canvas element's resolution, displayed size or
\* place (or the element is not there).
Relayout(g) ==
    /\ g # pointer.geom
    /\ pointer' = Laid(g)
    /\ UNCHANGED <<progVars, noteVars, saved>>
    /\ Observe(Ev("relayout"))

\* --------------------------------------------------------- specifications
\* Strokes, image insertions and the initial load.
NextPush ==
    \/ \E t \in ToolChoices : SetTool(t)
    \/ \E x \in DOMAIN canvas : StartDrawing(x)
    \/ \E x \in DOMAIN canvas : Draw(x)
    \/ \E k \in EndEvents : StopDrawing(k)
    \/ HandleImageUpload
    \/ \E i \in 1..MaxUploads : ImageLoaded(i)
    \/ InitialLoaded

SpecPush == Init /\ [][NextPush]_vars

\* Strokes, undo, redo and the restores they issue, on a page opened
\* without a stored drawing.
InitFresh ==
    /\ Mounted(Blank, Null)
    /\ script = ScriptOff
    /\ Opened(PlainPage)

NextRestore ==
    \/ \E t \in ToolChoices : SetTool(t)
    \/ \E x \in DOMAIN canvas : StartDrawing(x)
    \/ \E x \in DOMAIN canvas : Draw(x)
    \/ \E k \in EndEvents : StopDrawing(k)
    \/ HandleUndo
    \/ HandleRedo
    \/ \E i \in 1..MaxRestores : RestoreLoaded(i)

SpecRestore == InitFresh /\ [][NextRestore]_vars

\* An undo/redo round trip: n strokes, n undos, n redos.
InitRoundTrip ==
    /\ \E d \in PageDrawings : Mounted(Blank, d)
    /\ script = [ScriptOff EXCEPT !.phase = "strokes"]
    /\ Opened(PlainPage)

NextRoundTrip ==
    \/ \E t \in ToolChoices : SetTool(t)
    \/ \E x \in DOMAIN canvas : StartDrawing(x)
    \/ \E x \in DOMAIN canvas : Draw(x)
    \/ \E k \in EndEvents : StopDrawing(k)
    \/ HandleUndo
    \/ HandleRedo
    \/ \E i \in 1..MaxRestores : RestoreLoaded(i)
    \/ InitialLoaded

SpecRoundTrip == InitRoundTrip /\ [][NextRoundTrip]_vars

\* Tool selection, the shape kind, the Shift key and strokes, on a canvas
\* that is a row of two pixels, page opened without a stored drawing.
Row == <<0, 0>>

InitDraw ==
    /\ Mounted(Row, Null)
    /\ script = ScriptOff
    /\ Opened(PlainPage)

NextDraw ==
    \/ \E t \in ToolChoices \cup {"shape"} : SetTool(t)
    \/ \E s \in ShapeChoices : SetSelectedShape(s)
    \/ \E down \in BOOLEAN : KeyShift(down)
    \/ \E x \in DOMAIN canvas : StartDrawing(x)
    \/ \E x \in DOMAIN canvas : Draw(x)
    \/ \E k \in EndEvents : StopDrawing(k)

SpecDraw == InitDraw /\ [][NextDraw]_vars

\* Every tool, the Shift key and strokes, on the one-pixel canvas.
NextPaint ==
    \/ \E t \in ToolType : SetTool(t)
    \/ \E down \in BOOLEAN : KeyShift(down)
    \/ \E x \in DOMAIN canvas : StartDrawing(x)
    \/ \E x \in DOMAIN canvas : Draw(x)
    \/ \E k \in EndEvents : StopDrawing(k)

SpecPaint == InitFresh /\ [][NextPaint]_vars

\* Colour selection.
NextColor == \E c \in Colors : HandleSetColor(c)

SpecColor == InitFresh /\ [][NextColor]_vars

\* Highlights and comments.  The page opened is plain, or stored with one
\* highlight that carries a comment, or stored with a highlight span in its
\* content and no highlight map.
StoredHighlight ==
    [id |-> hlId(1), color |-> HIGHLIGHT_COLORS[3],
     comments |-> <<[id |-> cId(1), text |-> <<"a">>, author |-> "Me", createdAt |-> 1]>>]
AnnotatedPage ==
    [content |-> <<hlId(1)>>, highlights |-> Some(Put(NoHighlights, hlId(1), StoredHighlight))]
LegacyPage == [content |-> <<hlId(0)>>, highlights |-> Null]
NotePages == {PlainPage, AnnotatedPage, LegacyPage}

InitAnnotate ==
    /\ Mounted(Blank, Null)
    /\ script = ScriptOff
    /\ \E p \in NotePages : Opened(p)

NextAnnotate ==
    \/ \E c \in HighlightChoices, sel \in Selections : HandleHighlight(c, sel)
    \/ \E target \in 0..MaxMarkers : HandleEditorClick(target)
    \/ CloseComments
    \/ \E text \in Texts : SetNewComment(text)
    \/ AddComment
    \/ Tick

SpecAnnotate == InitAnnotate /\ [][NextAnnotate]_vars

\* Freehand strokes of the pen and the highlighter without the Shift key,
\* on the row of two pixels.
InkChoices == {"pen", "highlighter"}

NextInk ==
    \/ \E t \in InkChoices : SetTool(t)
    \/ \E x \in DOMAIN canvas : StartDrawing(x)
    \/ \E x \in DOMAIN canvas : Draw(x)
    \/ \E k \in EndEvents : StopDrawing(k)

SpecInk == InitDraw /\ [][NextInk]_vars

\* Strokes, undo, redo and their decodes, ended by a save.
NextSave ==
    \/ saved = Null /\ NextRestore
    \/ HandleSave

SpecSave == InitFresh /\ [][NextSave]_vars

\* Pointer events mapped to canvas coordinates under every geometry.
InitCoords ==
    /\ \E g \in Geometries : MountedWith(Blank, Null, NewContext, g)
    /\ script = ScriptOff
    /\ Opened(PlainPage)

NextCoords ==
    \/ \E e \in PointerEvents : GetCoordinates(e)
    \/ \E g \in Geometries : Relayout(g)

SpecCoords == InitCoords /\ [][NextCoords]_vars

\* Pointer events and strokes on a canvas whose 2D context was never
\* obtained; the canvas element itself is there or not.
InitBare ==
    /\ \E g \in {Null, Unscaled} : MountedWith(Row, Null, NoContext, g)
    /\ script = ScriptOff
    /\ Opened(PlainPage)

NextBare ==
    \/ \E t \in ToolType : SetTool(t)
    \/ \E down \in BOOLEAN : KeyShift(down)
    \/ \E x \in DOMAIN canvas : StartDrawing(x)
    \/ \E x \in DOMAIN canvas : Draw(x)
    \/ \E k \in EndEvents : StopDrawing(k)
    \/ \E e \in PointerEvents : GetCoordinates(e)

SpecBare == InitBare /\ [][NextBare]_vars

\* ----------------------------------------------------------------- claims
\* C1: in every reachable state -1 <= historyStep <= length(history) - 1.
C1_PointerInRange == -1 <= historyStep /\ historyStep <= Len(history) - 1

\* C2: every push, at a stroke end or at an image-insertion completion, made
\* when the history is h and the pointer is p yields h[0..p] followed by the
\* new snapshot, and pointer p + 1 = new length - 1.
C2_PushTruncatesAndAppends ==
    [][ev'.op \in {"stopDrawing", "imageLoaded"} =>
          /\ history' = Slice(history, historyStep + 1) \o <<toDataURL(canvas')>>
          /\ historyStep' = historyStep + 1
          /\ historyStep' = Len(history') - 1]_vars

C4_LastIssuedRestoreWins ==
    batch.overlapped /\ ~batch.dirty /\ restoring = <<>> =>
        canvas = Decode(Val(batch.last))

\* C5: no stroke begin is accepted while a restore issued by undo or redo
\* has not completed.
C5_NoStrokeBeginWhileRestoring ==
    [][ev'.op = "startDrawing" => restoring = <<>>]_vars

\* C6: between a stroke's begin and its end no snapshot is appended and
\* historyStep does not advance, whatever move samples and image-insertion
\* completions occur in between.
C6_StrokeInProgressKeepsHistory ==
    [][isDrawing /\ ev'.op \in {"draw", "imageLoaded"} =>
          history' = history /\ historyStep' = historyStep]_vars

\* C7: each completed stroke appends exactly one snapshot to the history,
\* also with zero move samples; an end event with no stroke in progress
\* changes nothing.
C7_OneSnapshotPerStroke ==
    [][/\ ev'.op = "stopDrawing" =>
             /\ isDrawing /\ ~isDrawing'
             /\ Len(history') = Len(Slice(history, historyStep + 1)) + 1
             /\ SubSeq(history', 1, Len(history') - 1) = Slice(history, historyStep + 1)
             /\ history'[Len(history')] = toDataURL(canvas)
             /\ canvas' = canvas
       /\ ev'.op = "stopIdle" => ~isDrawing /\ UNCHANGED progVars]_vars

C7_StrokeWithoutMoves ==
    ev.op = "stopDrawing" /\ ~ev.moved /\ Len(history) = 2 /\ historyStep = 1

\* C8: undo with pointer p > 0 and a drawing tool sets the pointer to p - 1,
\* leaves the history unchanged and issues a restore whose completion makes
\* the surface equal to history[p - 1].
C8_UndoRestoresPrevious ==
    [][/\ ev'.op = "restore" /\ ev'.by = "undo" =>
             /\ historyStep > 0
             /\ historyStep' = historyStep - 1
             /\ history' = history
             /\ restoring' = Append(restoring, [data |-> history[historyStep], by |-> "undo"])
       /\ ev'.op = "restored" /\ ev'.by = "undo" =>
             \E i \in DOMAIN restoring :
                 /\ restoring' = RemoveAt(restoring, i)
                 /\ canvas' = Decode(restoring[i].data)]_vars

\* C9: undo with pointer 0 and a drawing tool sets the pointer to -1, leaves
\* the history unchanged and clears the surface in the same step, without
\* any decode.
C9_UndoAtZeroClears ==
    [][(/\ ev'.op \in UndoOps \cup {"textUndo"} /\ ev'.by = "undo"
        /\ tool # "text" /\ historyStep = 0) =>
          /\ ev'.op = "undoToEmpty"
          /\ historyStep' = -1
          /\ history' = history
          /\ \A p \in DOMAIN canvas' : canvas'[p] = 0
          /\ restoring' = restoring]_vars

C9_ClearedPaintedSurface ==
    /\ ev.op = "undoToEmpty"
    /\ historyStep = -1
    /\ Len(history) >= 1
    /\ Decode(history[1]) # clearRect(canvas)

\* C10: redo with pointer p < length - 1 and a drawing tool sets the pointer
\* to p + 1, leaves the history unchanged and issues a restore whose
\* completion makes the surface equal to history[p + 1].
C10_RedoRestoresNext ==
    [][/\ ev'.op = "restore" /\ ev'.by = "redo" =>
             /\ historyStep < Len(history) - 1
             /\ historyStep' = historyStep + 1
             /\ history' = history
             /\ restoring' = Append(restoring, [data |-> history[historyStep + 2], by |-> "redo"])
       /\ ev'.op = "restored" /\ ev'.by = "redo" =>
             \E i \in DOMAIN restoring :
                 /\ restoring' = RemoveAt(restoring, i)
                 /\ canvas' = Decode(restoring[i].data)]_vars

\* C11: undo at pointer -1 and redo at pointer length - 1 are no-ops: the
\* history, the pointer and the surface are unchanged and no restore is issued.
C11_BoundaryUndoRedoAreNoOps ==
    [][/\ (ev'.op \in UndoOps \cup {"textUndo"} /\ ev'.by = "undo" /\ historyStep = -1) =>
             UNCHANGED <<history, historyStep, canvas, restoring>>
       /\ (ev'.op \in RedoOps \cup {"textRedo"} /\ ev'.by = "redo"
           /\ historyStep = Len(history) - 1) =>
             UNCHANGED <<history, historyStep, canvas, restoring>>]_vars

\* A redo at the last snapshot of a history of two, with a drawing tool.
C11_RedoAtLastSnapshot ==
    /\ ev.op = "redoNoop"
    /\ tool # "text"
    /\ Len(history) = 2
    /\ historyStep = 1

\* C12: in preview mode (shape tool, or a freehand tool with the
\* straight-line modifier held) after every move sample the surface is the
\* pre-stroke snapshot plus exactly one primitive from the start coordinate
\* to the current coordinate, and the committed result is the surface left
\* by the last move sample.
C12_PreviewIsSnapshotPlusOnePrimitive ==
    [][/\ (ev'.op = "draw" /\ (tool = "shape" \/ isShiftPressed)) =>
             \E x \in DOMAIN canvas :
                 /\ tool # "shape" => ctx'.at = Some(x)
                 /\ canvas' = stroke(Val(snapshot),
                                     PreviewPath(IF tool = "eraser"
                                                 THEN FreehandParams(ctx, tool)
                                                 ELSE PreviewParams(ctx, tool),
                                                 tool, selectedShape, Val(startPos), x))
       /\ (ev'.op = "stopDrawing" /\ (tool = "shape" \/ isShiftPressed)) =>
             history'[Len(history')] = toDataURL(canvas)]_vars

\* C13: while the tool is text no pointer event delivered to the canvas
\* (begin, move, end, leave) changes the surface, the history or historyStep.
C13_TextToolIgnoresPointerEvents ==
    [][(tool = "text" /\ ev'.op \in {"startDrawing", "draw", "stopDrawing", "stopIdle", "noop"}) =>
          UNCHANGED <<canvas, history, historyStep>>]_vars

\* C14: with the text tool undo and redo go to the text editor and leave the
\* history, historyStep and the surface unchanged; with any other tool they
\* never go to the text editor.
C14_UndoRedoTargetFollowsTool ==
    [][(ev'.by \in {"undo", "redo"} /\ ev'.op # "restored") =>
          IF tool = "text"
          THEN /\ ev'.op = (IF ev'.by = "undo" THEN "textUndo" ELSE "textRedo")
               /\ UNCHANGED <<history, historyStep, canvas, restoring>>
          ELSE ev'.op \notin {"textUndo", "textRedo"}]_vars

\* An undo with the text tool while the raster history has a stroke to undo.
C14_TextUndoWithRasterHistory ==
    /\ ev.op = "textUndo"
    /\ tool = "text"
    /\ historyStep >= 1
    /\ \E p \in DOMAIN canvas : canvas[p] # 0

\* C15: a stroke ended because the pointer leaves the canvas is committed
\* like one ended by a pointer-up: the painted pixels stay, one snapshot is
\* pushed, and a later pointer-up of the same gesture pushes nothing more.
C15_PointerLeaveCommitsStroke ==
    [][/\ (ev'.op = "stopDrawing" /\ ev'.by = "mouseout") =>
             /\ canvas' = canvas
             /\ Len(history') = Len(Slice(history, historyStep + 1)) + 1
             /\ history'[Len(history')] = toDataURL(canvas)
             /\ historyStep' = historyStep + 1
             /\ ~isDrawing'
       /\ (ev.op = "stopDrawing" /\ ev.by = "mouseout"
           /\ ev'.op \in {"stopDrawing", "stopIdle"} /\ ev'.by = "mouseup") =>
             /\ ev'.op = "stopIdle"
             /\ UNCHANGED <<canvas, history, historyStep>>]_vars

\* A painted stroke was ended by the pointer leaving the canvas.
C15_PaintedStrokeEndedByLeave ==
    /\ ev.op = "stopDrawing"
    /\ ev.by = "mouseout"
    /\ ev.moved
    /\ \E p \in DOMAIN canvas : canvas[p] = Ink
    /\ history # <<>>
    /\ history[Len(history)] = toDataURL(canvas)

\* C16: an image insertion, when its decode completes, paints the image onto
\* the surface with normal blending and appends exactly one snapshot to the
\* history; nothing is appended before the decode completes.
C16_ImageInsertionPaintsAndPushesOnce ==
    [][/\ ev'.op = "imageLoaded" =>
             /\ ctx'.globalCompositeOperation = "source-over"
             /\ ctx'.globalAlpha = 100
             /\ canvas' = [p \in DOMAIN canvas |-> IF p = 1 THEN Ink ELSE canvas[p]]
             /\ \E n \in 0..Len(history) :
                    history' = SubSeq(history, 1, n) \o <<toDataURL(canvas')>>
             /\ Len(uploads') = Len(uploads) - 1
       /\ ev'.op = "upload" =>
             /\ UNCHANGED <<canvas, history, historyStep>>
             /\ Len(uploads') = Len(uploads) + 1]_vars

\* An image was inserted after a stroke had been committed.
C16_ImageInsertedAfterStroke ==
    /\ ev.op = "imageLoaded"
    /\ Len(history) = 2
    /\ history[2] = toDataURL(canvas)
    /\ canvas[1] = Ink
    /\ Decode(history[1])[1] = 0

\* C17: recentColors has at most 5 entries, no duplicates and no preset
\* colour.
C17_RecentColorsWellFormed ==
    /\ Len(recentColors) <= 5
    /\ \A i, j \in DOMAIN recentColors : recentColors[i] = recentColors[j] => i = j
    /\ \A i \in DOMAIN recentColors : \A k \in DOMAIN PRESET_COLORS :
           recentColors[i] # PRESET_COLORS[k]

\* The list is full and a preset colour is the stroke colour.
C17_FullListPresetSelected ==
    /\ Len(recentColors) = 5
    /\ \E k \in DOMAIN PRESET_COLORS : color = PRESET_COLORS[k]
    /\ ev.op = "setColor"

\* C18: setColor(c) sets the stroke colour to c; for a custom c recentColors
\* becomes c followed by the previous entries other than c, in their order,
\* cut to the first 5; for a preset c it is unchanged.
C18_SetColorUpdatesRecent ==
    [][ev'.op = "setColor" =>
          IF \E k \in DOMAIN PRESET_COLORS : color' = PRESET_COLORS[k]
          THEN recentColors' = recentColors
          ELSE LET rest == SelectSeq(recentColors, LAMBDA e : e # color')
                   all == <<color'>> \o rest
               IN  recentColors' = SubSeq(all, 1, IF Len(all) < 5 THEN Len(all) ELSE 5)]_vars

\* A custom colour leads a full list.
C18_CustomColorLeadsFullList ==
    /\ ev.op = "setColor"
    /\ Len(recentColors) = 5
    /\ recentColors[1] = color
    /\ color \in CustomColors

\* C19: every paint of a stroke uses the width, opacity and blend mode of
\* the tool table for the active tool (fine_liner 1/1.0/normal, pen
\* 3/1.0/normal, marker 8/1.0/normal, highlighter 24/0.35/multiply, eraser
\* 40/1.0/destructive, shape 2/1.0/normal), in freehand and in preview mode,
\* whatever the previous paint used.
C19_PaintUsesToolTable ==
    [][ev'.op = "draw" =>
          /\ ctx'.lineWidth = CASE tool = "fine_liner" -> 1
                                [] tool = "pen" -> 3
                                [] tool = "marker" -> 8
                                [] tool = "highlighter" -> 24
                                [] tool = "eraser" -> 40
                                [] tool = "shape" -> 2
          /\ ctx'.globalAlpha = IF tool = "highlighter" THEN 35 ELSE 100
          /\ ctx'.globalCompositeOperation =
                 CASE tool = "highlighter" -> "multiply"
                   [] tool = "eraser" -> "destination-out"
                   [] OTHER -> "source-over"]_vars

\* A pen paint in preview mode over a pixel a highlighter has tinted.
C19_PenPreviewAfterHighlighter ==
    /\ ev.op = "draw"
    /\ tool = "pen"
    /\ isShiftPressed
    /\ snapshot # Null
    /\ Val(snapshot)[1] = 1
    /\ canvas[1] = Ink

\* C20: an eraser stroke never adds colour: every paint made while the tool
\* is eraser uses the destination-out blend, with or without the
\* straight-line modifier and after any tool changes.
C20_EraserOnlyRemoves ==
    [][(ev'.op = "draw" /\ tool = "eraser") =>
          /\ ctx'.globalCompositeOperation = "destination-out"
          /\ \A p \in DOMAIN canvas : canvas'[p] <= canvas[p]]_vars

\* The eraser, with Shift held, wiped a pixel that was painted.
C20_EraserWithShiftWipedInk ==
    /\ ev.op = "draw"
    /\ tool = "eraser"
    /\ isShiftPressed
    /\ snapshot # Null
    /\ Val(snapshot)[1] = Ink
    /\ canvas[1] = 0

\* C21: for every freehand tool (fine_liner, pen, marker, highlighter,
\* eraser) a move sample taken with the straight-line modifier held leaves
\* the pre-stroke snapshot with a single straight segment from the start
\* coordinate to the current coordinate painted on it.
C21_StraightLineForEveryFreehandTool ==
    [][(/\ ev'.op = "draw"
        /\ isShiftPressed
        /\ tool \in {"fine_liner", "pen", "marker", "highlighter", "eraser"}) =>
          /\ ctx'.at # Null
          /\ \A p \in DOMAIN canvas :
                canvas'[p] = IF p \in Segment(Val(startPos), Val(ctx'.at))
                             THEN Blend(Val(snapshot)[p], Ink,
                                        ctx'.globalCompositeOperation, ctx'.globalAlpha)
                             ELSE Val(snapshot)[p]]_vars

\* C22: from every tool state every other tool state is reachable by a
\* single explicit tool selection; in particular from text each of
\* fine_liner, pen, marker, highlighter, eraser and shape can be selected
\* directly.
C22_EveryToolDirectlySelectable ==
    \A t \in ToolType \ {tool} : ENABLED SetTool(t)

\* C23: createHighlight on a non-collapsed, wrappable selection stores a
\* new entry {id, color, comments: []} under a freshly generated id (one
\* the map did not hold before) and makes that id the active highlight.
C23_CreateStoresFreshEntry ==
    [][(ev'.op = "handleHighlight" /\ ev'.by = "inline") =>
          \E id \in DOMAIN highlights' \ DOMAIN highlights :
              /\ highlights'[id].id = id
              /\ highlights'[id].color \in HighlightChoices
              /\ highlights'[id].comments = <<>>
              /\ \A k \in DOMAIN highlights : highlights'[k] = highlights[k]
              /\ activeHighlightId' = id]_vars

\* C24: highlight ids are unique within a page: after any sequence of
\* successful createHighlight calls (also within one clock tick, also on a
\* page loaded with highlights) the number of stored highlights is the
\* number created plus the number loaded, and no two markers carry the
\* same id.
C24_HighlightIdsUnique ==
    /\ Cardinality(DOMAIN highlights)
         = (Len(markers) - Len(pageNotes.content))
           + (IF pageNotes.highlights = Null THEN 0
              ELSE Cardinality(DOMAIN Val(pageNotes.highlights)))
    /\ \A i, j \in DOMAIN markers : markers[i] = markers[j] => i = j

\* C25: comments are append-only: after any operation (createHighlight,
\* addComment, selectActive, ...) each highlight's comment sequence has its
\* previous sequence as a prefix.
C25_CommentsAppendOnly ==
    [][\A k \in DOMAIN highlights :
          /\ k \in DOMAIN highlights'
          /\ Len(highlights'[k].comments) >= Len(highlights[k].comments)
          /\ SubSeq(highlights'[k].comments, 1, Len(highlights[k].comments))
               = highlights[k].comments]_vars

\* C26: addComment whose target id does not resolve to a stored highlight
\* (the active id comes from a marker that has no entry in the map) is a
\* no-op: the map is unchanged and no error is raised.
C26_CommentOnUnknownHighlightIsNoOp ==
    [][(ev'.op = "addComment" /\ activeHighlightId \notin DOMAIN highlights) =>
          (highlights' = highlights /\ ~crashed')]_vars

\* C27: addComment with an empty or whitespace-only text is a no-op: the
\* highlight map, the active highlight and the pending comment text are
\* unchanged.
C27_BlankCommentIsNoOp ==
    [][(ev'.op = "addComment" /\ \A i \in DOMAIN newComment : newComment[i] = " ") =>
          UNCHANGED <<highlights, activeHighlightId, newComment, crashed>>]_vars

\* addComment was called with a whitespace-only text on a stored highlight.
C27_BlankCommentOnStoredHighlight ==
    /\ ev.op = "addComment"
    /\ newComment = <<" ">>
    /\ activeHighlightId \in DOMAIN highlights

\* C28: an accepted addComment (the active id is stored, the text is not
\* blank) appends exactly one comment, carrying the submitted text and the
\* author, at the end of the target's thread; the target's id and colour
\* and every other highlight are unchanged; on a fresh highlight the thread
\* then has length 1.
C28_AcceptedCommentIsAppended ==
    [][(/\ ev'.op = "addComment"
        /\ activeHighlightId \in DOMAIN highlights
        /\ \E i \in DOMAIN newComment : newComment[i] # " ") =>
          LET old == highlights[activeHighlightId]
              new == highlights'[activeHighlightId]
          IN  /\ DOMAIN highlights' = DOMAIN highlights
              /\ Len(new.comments) = Len(old.comments) + 1
              /\ SubSeq(new.comments, 1, Len(old.comments)) = old.comments
              /\ new.comments[Len(new.comments)].text = newComment
              /\ new.comments[Len(new.comments)].author = "Me"
              /\ new.id = old.id
              /\ new.color = old.color
              /\ \A k \in DOMAIN highlights \ {activeHighlightId} :
                    highlights'[k] = highlights[k]
              /\ old.comments = <<>> => Len(new.comments) = 1]_vars

\* A second comment, typed with a leading blank, has just been posted to a
\* thread at a later clock reading than the first.
C28_SecondCommentPosted ==
    /\ ev.op = "addComment"
    /\ newComment = <<>>
    /\ activeHighlightId \in DOMAIN highlights
    /\ Len(highlights[activeHighlightId].comments) = 2
    /\ highlights[activeHighlightId].comments[1].createdAt = 1
    /\ highlights[activeHighlightId].comments[2].text = <<" ", "a">>
    /\ highlights[activeHighlightId].comments[2].createdAt = 2
    /\ now = 2

\* C29: createHighlight on a selection whose wrapping fails stores nothing:
\* the highlight map and the active highlight are exactly as before (no
\* marker is added either) and no error propagates.
C29_FailedWrapStoresNothing ==
    [][(ev'.op = "handleHighlight" /\ ev'.by = "blocks") =>
          (UNCHANGED <<highlights, activeHighlightId, markers>> /\ ~crashed')]_vars

\* A wrap has just failed while a highlight with a comment was active.
C29_WrapFailedWithActiveThread ==
    /\ ev.op = "handleHighlight"
    /\ ev.by = "blocks"
    /\ activeHighlightId \in DOMAIN highlights
    /\ highlights[activeHighlightId].comments # <<>>

\* C30: createHighlight on an absent or collapsed selection is a no-op:
\* the highlight map and the active highlight are unchanged and no marker
\* is created.
C30_EmptySelectionIsNoOp ==
    [][(ev'.op = "handleHighlight" /\ ev'.by \in {"none", "collapsed"}) =>
          UNCHANGED <<highlights, activeHighlightId, markers>>]_vars

\* A highlight colour was clicked with a collapsed selection (a caret) after
\* a highlight had been created and the comments panel closed.
C30_CaretAfterHighlight ==
    /\ ev.op = "handleHighlight"
    /\ ev.by = "collapsed"
    /\ Len(markers) > Len(pageNotes.content)
    /\ activeHighlightId = Null

\* C33: whenever historyStep = -1 and no stroke is in progress the surface
\* is empty, in every reachable state, also when a decode issued by an
\* earlier undo or redo completes after the pointer reached -1.
C33_EmptyPointerMeansEmptySurface ==
    (historyStep = -1 /\ ~isDrawing) => canvas = clearRect(canvas)

\* C34: in every quiescent state (no stroke in progress, no decode pending)
\* with historyStep = p >= 0 the surface equals history[p].
C34_QuiescentSurfaceIsCurrentSnapshot ==
    (/\ ~isDrawing
     /\ restoring = <<>>
     /\ uploads = <<>>
     /\ ~loading
     /\ historyStep >= 0) =>
        /\ historyStep + 1 \in DOMAIN history
        /\ toDataURL(canvas) = history[historyStep + 1]

\* C36: when a page with a stored raster snapshot is opened, the completion
\* of the initial decode never removes from the history a snapshot pushed
\* by a stroke or image insertion that completed before the decode did, and
\* the pixels of such a stroke are not lost from the loaded surface.
C36_InitialLoadKeepsEarlierPushes ==
    [][ev'.op = "initialLoaded" =>
          /\ \A i \in DOMAIN history :
                \E j \in DOMAIN history' : history'[j] = history[i]
          /\ \A p \in DOMAIN canvas : canvas[p] > 0 => canvas'[p] > 0]_vars

\* C38: undo and redo never change the contents of the history sequence
\* (its length and every stored snapshot stay, only historyStep moves), and
\* stored snapshots are changed or dropped only by a push.
C38_HistoryChangedOnlyByPush ==
    [][/\ (ev'.by \in {"undo", "redo"} \/ ev'.op \in {"textUndo", "textRedo"}) =>
              history' = history
       /\ (\E i \in DOMAIN history : i \notin DOMAIN history' \/ history'[i] # history[i]) =>
              ev'.op \in {"stopDrawing", "imageLoaded"}]_vars

\* C39: in every reachable state the active highlight id is either null or
\* the key of an entry in the highlight map.
C39_ActiveHighlightIsStored ==
    activeHighlightId = Null \/ activeHighlightId \in DOMAIN highlights

\* C37: in ordinary freehand mode (no shape tool, no modifier) each move
\* sample paints only the new segment from the previous sample to the
\* current one; a segment painted by an earlier sample of the same stroke
\* is not painted again, so a highlighter stroke covers each segment once
\* at opacity 0.35.
C37_MoveSamplePaintsNewSegmentOnly ==
    [][(/\ ev'.op = "draw"
        /\ tool \notin {"text", "shape"}
        /\ ~isShiftPressed
        /\ ctx.at # Null) =>
          /\ ctx'.at # Null
          /\ \A p \in DOMAIN canvas :
                canvas'[p] = IF p \in Segment(Val(ctx.at), Val(ctx'.at))
                             THEN Blend(canvas[p], Ink,
                                        ctx'.globalCompositeOperation, ctx'.globalAlpha)
                             ELSE canvas[p]]_vars

\* C35: the raster snapshot emitted by save equals the snapshot at the
\* current history pointer (the empty surface when the pointer is -1), also
\* when save is invoked right after an undo or redo whose decode has not
\* yet completed.
C35_SaveEmitsCurrentSnapshot ==
    [][(ev'.op = "save" /\ ~isDrawing) =>
          Val(saved').drawingData = IF historyStep = -1
                                    THEN toDataURL(clearRect(canvas))
                                    ELSE history[historyStep + 1]]_vars

C32_UnattachedSurfaceIsInert ==
    [][/\ (ev'.op = "getCoordinates" /\ pointer.geom = Null) =>
              /\ pointer'.offset = Some([offsetX |-> <<0, 1>>, offsetY |-> <<0, 1>>])
              /\ UNCHANGED <<progVars, noteVars, saved>>
       /\ (/\ ~ctx.attached
           /\ ev'.op \in {"startDrawing", "draw", "noop", "stopDrawing", "stopIdle"}) =>
              /\ canvas' = canvas
              /\ ~ctx'.attached]_vars

\* A stroke has just ended without a 2D context, after a touch had been
\* mapped with no canvas element.
C32_StrokeEndedWithoutContext ==
    /\ ev.op = "stopDrawing"
    /\ ~ctx.attached
    /\ tool = "marker"
    /\ pointer.geom = Null
    /\ pointer.e # Null
    /\ "touches" \in DOMAIN Val(pointer.e)

=============================================================================
